---- MODULE Spec2Model ----
(***************************************************************************)
(* A model of the mova interpreter: the scope chain of                     *)
(* src/src/interpreter/scope.rs, the tree-walking evaluator of             *)
(* src/src/interpreter/evaluation.rs and the slot / reference counters of  *)
(* src/src/interpreter/data.rs.                                            *)
(*                                                                         *)
(* The heap of Rc<RefCell<Scope>> cells is a sequence of scope records; a  *)
(* scope handle is an index into it, 0 standing for `None`.  Every         *)
(* operation that mutates a scope takes the heap and returns the new heap  *)
(* together with its Result.                                               *)
(***************************************************************************)
EXTENDS Integers, Sequences, FiniteSets, TLC

\* Number of top-level nodes of the Program that is evaluated.
MaxNodes == 3
\* Depth of nested calls the host stack holds before it overflows.
MaxDepth == 6
\* i32::MAX, the width of Data::Number and Expression::Number.
MaxI32 == 2147483647
MinI32 == (-MaxI32) - 1

---------------------------------------------------------------------------
(* The AST (parser/expression.rs, parser/statement.rs, parser/node.rs).    *)
(* Every node is a record of one shape; `name` holds an identifier or an   *)
(* operator, `kids` the sub-nodes in source order.                         *)

NoExpr == [t |-> "None", n |-> 0, b |-> FALSE, name |-> "", kids |-> <<>>, params |-> <<>>]

Number(n) == [NoExpr EXCEPT !.t = "Number", !.n = n]
Boolean(b) == [NoExpr EXCEPT !.t = "Boolean", !.b = b]
Identifier(i) == [NoExpr EXCEPT !.t = "Identifier", !.name = i]
Reference(i) == [NoExpr EXCEPT !.t = "Reference", !.name = i]
BinaryExpression(operator, left, right) ==
    [NoExpr EXCEPT !.t = "BinaryExpression", !.name = operator, !.kids = <<left, right>>]
Call(name, arguments) == [NoExpr EXCEPT !.t = "Call", !.name = name, !.kids = arguments]
Block(nodes) == [NoExpr EXCEPT !.t = "Block", !.kids = nodes]
Program(nodes) == [NoExpr EXCEPT !.t = "Program", !.kids = nodes]
Variable(name, value) == [NoExpr EXCEPT !.t = "Variable", !.name = name, !.kids = <<value>>]
Function(name, parameters, body) ==
    [NoExpr EXCEPT !.t = "Function", !.name = name, !.params = parameters, !.kids = <<body>>]

\* Node::Statement wraps a Variable or a Function, Node::Expression the rest.
IsStatement(node) == node.t \in {"Variable", "Function"}

---------------------------------------------------------------------------
(* Runtime values and results.                                             *)

NoData == [tag |-> "None", n |-> 0, b |-> FALSE, parameters |-> <<>>, body |-> NoExpr, scope |-> 0]
DataNumber(n) == [NoData EXCEPT !.tag = "Number", !.n = n]
DataBoolean(b) == [NoData EXCEPT !.tag = "Boolean", !.b = b]
DataFunction(parameters, body, scope) ==
    [NoData EXCEPT !.tag = "Function", !.parameters = parameters, !.body = body, !.scope = scope]

\* Result<Option<Data>>: "ok" is Ok(Some(v)), "none" is Ok(None), "err" is
\* Err(MovaError::Runtime(..)) with the message's text in msg and the values
\* formatted into it in id, n and m.  "abort" is the process dying (a panic or
\* the host stack overflowing): no Result is returned at all.
OkSome(v) == [kind |-> "ok", v |-> v, msg |-> "", id |-> "", n |-> 0, m |-> 0]
OkNone == [kind |-> "none", v |-> NoData, msg |-> "", id |-> "", n |-> 0, m |-> 0]
Runtime(msg, id, n, m) == [kind |-> "err", v |-> NoData, msg |-> msg, id |-> id, n |-> n, m |-> m]
Abort(msg) == [kind |-> "abort", v |-> NoData, msg |-> msg, id |-> "", n |-> 0, m |-> 0]

\* What the `?` operator returns early on; an abort unwinds everything.
Failed(r) == r.kind \in {"err", "abort"}

Ret(h, r) == [h |-> h, r |-> r]

---------------------------------------------------------------------------
(* Scope (interpreter/scope.rs).                                           *)

EmptyLocals == [i \in {} |-> NoData]

Scope_new(parent) ==
    [parent |-> parent, locals |-> EmptyLocals, history |-> <<>>, references |-> <<>>]

Contains(seq, x) == \E i \in 1..Len(seq) : seq[i] = x

Remove(locals, identifier) == [i \in (DOMAIN locals) \ {identifier} |-> locals[i]]

declare(h, s, identifier, data) ==
    [h EXCEPT ![s].locals = (identifier :> data) @@ @,
              ![s].history = Append(@, identifier)]

borrow(h, s, reference) == [h EXCEPT ![s].references = Append(@, reference)]

\* try_borrow / try_borrow_mut of a RefCell: `held` is the set of scopes with
\* a RefMut outstanding.
borrow_scope(held, s) == s \notin held

ScopeBorrowed == Runtime("Scope is already borrowed", "", 0, 0)

RECURSIVE is_in_history(_, _, _, _)
is_in_history(h, s, identifier, held) ==
    IF Contains(h[s].history, identifier) THEN Ret(h, OkSome(DataBoolean(TRUE)))
    ELSE IF h[s].parent = 0 THEN Ret(h, OkSome(DataBoolean(FALSE)))
    ELSE IF ~borrow_scope(held, h[s].parent) THEN Ret(h, ScopeBorrowed)
    ELSE is_in_history(h, h[s].parent, identifier, held)

IsCopied(l) == l.tag = "Number"

\* Mutant of find_local: a lookup that fails still records the name in the
\* history of the scope.
RECURSIVE find_local_Touch(_, _, _, _, _)
find_local_Touch(h, s, identifier, is_parent, held) ==
    IF identifier \in DOMAIN h[s].locals
    THEN LET l == h[s].locals[identifier] IN
         IF IsCopied(l) \/ ~is_parent THEN Ret(h, OkSome(l))
         ELSE Ret([h EXCEPT ![s].locals = Remove(@, identifier)], OkSome(l))
    ELSE LET p == h[s].parent
             found ==
                 IF p # 0 THEN find_local_Touch(h, p, identifier, TRUE, held \cup {p})
                 ELSE Ret(h, Runtime("Unable to resolve identifier", identifier, 0, 0))
         IN IF Failed(found.r)
            THEN Ret([found.h EXCEPT ![s].history = Append(@, identifier)], found.r)
            ELSE Ret(declare(found.h, s, identifier, found.r.v), found.r)

RECURSIVE find_local(_, _, _, _, _)
find_local(h, s, identifier, is_parent, held) ==
    IF identifier \in DOMAIN h[s].locals
    THEN LET l == h[s].locals[identifier] IN
         IF IsCopied(l) THEN Ret(h, OkSome(l))
         ELSE IF is_parent
              THEN Ret([h EXCEPT ![s].locals = Remove(@, identifier)], OkSome(l))
              ELSE Ret(h, OkSome(l))
    ELSE LET p == h[s].parent
             found ==
                 IF p # 0
                 THEN IF borrow_scope(held, p)
                      THEN find_local(h, p, identifier, TRUE, held \cup {p})
                      ELSE Ret(h, ScopeBorrowed)
                 ELSE LET is_moved == is_in_history(h, s, identifier, held) IN
                      IF Failed(is_moved.r) THEN is_moved
                      ELSE IF is_moved.r.v.b
                           THEN Ret(h, Runtime("Unable to resolve identifier. Value was moved to another scope",
                                               identifier, 0, 0))
                           ELSE Ret(h, Runtime("Unable to resolve identifier", identifier, 0, 0))
         IN IF Failed(found.r) THEN found
            ELSE Ret(declare(found.h, s, identifier, found.r.v), found.r)

\* The caller holds the RefMut of s.
resolve(h, s, identifier) == find_local(h, s, identifier, FALSE, {s})

RECURSIVE find_scope_by_identifier(_, _, _, _)
find_scope_by_identifier(h, s, identifier, held) ==
    IF identifier \in DOMAIN h[s].locals THEN [ok |-> TRUE, scope |-> s, e |-> OkNone]
    ELSE LET p == h[s].parent IN
         IF p = 0
         THEN [ok |-> FALSE, scope |-> 0,
               e |-> Runtime("Unable to find scope by identifier", identifier, 0, 0)]
         ELSE IF ~borrow_scope(held, p) THEN [ok |-> FALSE, scope |-> 0, e |-> ScopeBorrowed]
         ELSE find_scope_by_identifier(h, p, identifier, held \cup {p})

\* Called on the RefMut of s: s itself is mutably borrowed throughout.
RECURSIVE return_references(_, _)
return_references(h, s) ==
    IF h[s].references = <<>> THEN Ret(h, OkNone)
    ELSE LET r == h[s].references[Len(h[s].references)]
             popped == [h EXCEPT ![s].references = SubSeq(@, 1, Len(@) - 1)]
         IN IF ~borrow_scope({s}, r.scope) THEN Ret(popped, ScopeBorrowed)
            ELSE return_references(declare(popped, r.scope, r.identifier, r.value), s)

---------------------------------------------------------------------------
(* i32 arithmetic.  Rust's `+`, `-` and `*` on i32 panic on overflow when  *)
(* the build has overflow checks (debug) and wrap modulo 2^32 when it has  *)
(* not (release); `/` truncates toward zero and panics on i32::MIN / -1 in *)
(* every build.  No intermediate value below leaves the i32 range.         *)

VARIABLES overflow_checks

Abs(x) == IF x < 0 THEN -x ELSE x

AddOverflows(l, r) == (r > 0 /\ l > MaxI32 - r) \/ (r < 0 /\ l < MinI32 - r)

WrapAdd(l, r) ==
    IF r > 0 /\ l > MaxI32 - r THEN ((l - MaxI32) - 1) + ((r - MaxI32) - 1)
    ELSE IF r < 0 /\ l < MinI32 - r THEN ((l + MaxI32) + 1) + ((r + MaxI32) + 1)
    ELSE l + r

SubOverflows(l, r) == (r < 0 /\ l > MaxI32 + r) \/ (r > 0 /\ l < MinI32 + r)

WrapSub(l, r) == IF r = MinI32 THEN WrapAdd(l, MinI32) ELSE WrapAdd(l, -r)

\* The 16-bit halves of the two's complement representation of x.
Lo16(x) == x % 65536
Hi16(x) == (x \div 65536) % 65536

\* x * y modulo 2^16 for two 16-bit halves.
MulLo16(x, y) == ((x % 256) * y + 256 * (((x \div 256) * y) % 256)) % 65536

\* l * r modulo 2^32, by halves.
WrapMul(l, r) ==
    LET m == (Lo16(l) \div 256) * Lo16(r)
        x == (Lo16(l) % 256) * Lo16(r) + 256 * (m % 256)
        lo == x % 65536
        hi == ((x \div 65536) + (m \div 256) + MulLo16(Lo16(l), Hi16(r))
                 + MulLo16(Hi16(l), Lo16(r))) % 65536
    IN  IF hi >= 32768 THEN (hi - 65536) * 65536 + lo ELSE hi * 65536 + lo

MulOverflows(l, r) ==
    IF l = 0 \/ r = 0 THEN FALSE
    ELSE IF l = MinI32 THEN r # 1
    ELSE IF r = MinI32 THEN l # 1
    ELSE LET al == Abs(l)
             ar == Abs(r)
         IN IF (l < 0) = (r < 0) THEN al > MaxI32 \div ar
            ELSE ar # 1 /\ al > (MaxI32 \div ar) + (IF MaxI32 % ar = ar - 1 THEN 1 ELSE 0)

\* Mutant of TruncDivPos: the quotient rounded toward minus infinity.
TruncDivPos_Floor(l, r) == l \div r

\* l / r for r > 0: the floor quotient, moved toward zero when l < 0 and the
\* division is inexact.
TruncDivPos(l, r) ==
    IF l >= 0 THEN l \div r
    ELSE (l \div r) + (IF l % r = 0 THEN 0 ELSE 1)

\* l / r of Rust for r # 0 and (l, r) # (i32::MIN, -1).
TruncDiv(l, r) ==
    IF r > 0 THEN TruncDivPos(l, r)
    ELSE IF r = MinI32 THEN (IF l = MinI32 THEN 1 ELSE 0)
    ELSE -TruncDivPos(l, -r)

Arith(overflows, exact, wrapped, what) ==
    IF ~overflows THEN OkSome(DataNumber(exact))
    ELSE IF overflow_checks THEN Abort(what)
    ELSE OkSome(DataNumber(wrapped))

---------------------------------------------------------------------------
(* The evaluator (interpreter/evaluation.rs).                              *)

evaluate_binary_expression(operator, left, right) ==
    IF left.tag = "Number" /\ right.tag = "Number" /\ operator \in {"+", "-", "*", "/"}
    THEN LET l == left.n
             r == right.n
         IN CASE operator = "+" ->
                   IF AddOverflows(l, r)
                   THEN Arith(TRUE, 0, WrapAdd(l, r), "attempt to add with overflow")
                   ELSE Arith(FALSE, l + r, 0, "")
              [] operator = "-" ->
                   IF SubOverflows(l, r)
                   THEN Arith(TRUE, 0, WrapSub(l, r), "attempt to subtract with overflow")
                   ELSE Arith(FALSE, l - r, 0, "")
              [] operator = "*" ->
                   IF MulOverflows(l, r)
                   THEN Arith(TRUE, 0, WrapMul(l, r), "attempt to multiply with overflow")
                   ELSE Arith(FALSE, l * r, 0, "")
              [] operator = "/" ->
                   IF r = 0 THEN Runtime("Division by zero", "", 0, 0)
                   ELSE IF l = MinI32 /\ r = -1 THEN Abort("attempt to divide with overflow")
                   ELSE OkSome(DataNumber(TruncDiv(l, r)))
    ELSE Runtime("Unexpected operator for operands", operator, 0, 0)

RECURSIVE evaluate(_, _, _, _)

\* `nodes.into_iter().map(|n| evaluate(n, scope)).collect()`: every node is
\* evaluated, in order, whatever the results before it were.
RECURSIVE evaluate_nodes(_, _, _, _, _)
evaluate_nodes(h, scope, nodes, results, depth) ==
    IF Len(results) = Len(nodes) THEN [h |-> h, results |-> results, aborted |-> FALSE]
    ELSE LET out == evaluate(h, scope, nodes[Len(results) + 1], depth) IN
         IF out.r.kind = "abort"
         THEN [h |-> out.h, results |-> Append(results, out.r), aborted |-> TRUE]
         ELSE evaluate_nodes(out.h, scope, nodes, Append(results, out.r), depth)

\* `results.pop().transpose()?.flatten()`
last_result(results) ==
    IF results = <<>> THEN OkNone ELSE results[Len(results)]

\* Map arguments to parameters: `try_for_each` stops at the first argument
\* whose evaluation failed, the parameters before it being declared.
RECURSIVE declare_parameters(_, _, _, _, _)
declare_parameters(h, scope, evaluated_arguments, parameters, i) ==
    IF i > Len(evaluated_arguments) \/ i > Len(parameters) THEN Ret(h, OkNone)
    ELSE IF Failed(evaluated_arguments[i]) THEN Ret(h, evaluated_arguments[i])
    ELSE declare_parameters(declare(h, scope, parameters[i], evaluated_arguments[i].v),
                            scope, evaluated_arguments, parameters, i + 1)

\* evaluate_call from the arguments on.  `scope` is the `scope` field of the
\* resolved Data::Function, which shadows the call site's scope.  The closure
\* mapped over the arguments yields each argument's value or the error of its
\* evaluation, and every argument is evaluated; no Data::Reference value is
\* ever built by this evaluator, so the closure's Data::Reference arm is
\* never taken.
call_function(h, scope, parameters, body, arguments, depth) ==
    LET args == evaluate_nodes(h, scope, arguments, <<>>, depth)
        evaluated_arguments ==
            [i \in 1..Len(args.results) |->
                IF args.results[i].kind = "none"
                THEN Runtime("Expected expression, but received statement as argument", "", 0, 0)
                ELSE args.results[i]]
    IN  IF args.aborted THEN Ret(args.h, args.results[Len(args.results)])
        ELSE LET declared == declare_parameters(args.h, scope, evaluated_arguments, parameters, 1) IN
             IF Failed(declared.r) THEN declared
             ELSE IF depth = 0 THEN Ret(declared.h, Abort("stack overflow"))
             ELSE LET result == evaluate(declared.h, scope, body, depth - 1) IN
                  IF result.r.kind = "abort" THEN result
                  ELSE LET returned == return_references(result.h, scope) IN
                       IF Failed(returned.r) THEN returned
                       ELSE Ret(returned.h, result.r)

\* Mutant of evaluate_call: the arguments, the parameters and the body use the
\* scope of the call site instead of the scope the function value carries.
evaluate_call_CallerScope(h, scope, name, arguments, depth) ==
    LET function_data == resolve(h, scope, name) IN
    IF Failed(function_data.r) THEN function_data
    ELSE IF function_data.r.v.tag # "Function"
         THEN Ret(function_data.h, Runtime("Identifier is not callable", name, 0, 0))
    ELSE IF Len(arguments) # Len(function_data.r.v.parameters)
         THEN Ret(function_data.h,
                  Runtime("Expected arguments but received", "",
                          Len(function_data.r.v.parameters), Len(arguments)))
    ELSE call_function(function_data.h, scope,
                       function_data.r.v.parameters, function_data.r.v.body,
                       arguments, depth)

\* Mutant of evaluate_call: the arguments are evaluated before the argument
\* count is compared with the parameter count.
evaluate_call_ArgumentsFirst(h, scope, name, arguments, depth) ==
    LET function_data == resolve(h, scope, name) IN
    IF Failed(function_data.r) THEN function_data
    ELSE IF function_data.r.v.tag # "Function"
         THEN Ret(function_data.h, Runtime("Identifier is not callable", name, 0, 0))
    ELSE LET argument_count == Len(arguments)
             parameter_count == Len(function_data.r.v.parameters)
             args == evaluate_nodes(function_data.h, function_data.r.v.scope, arguments, <<>>, depth)
         IN IF argument_count # parameter_count
            THEN Ret(args.h,
                     Runtime("Expected arguments but received", "", parameter_count, argument_count))
            ELSE call_function(function_data.h, function_data.r.v.scope,
                               function_data.r.v.parameters, function_data.r.v.body,
                               arguments, depth)

evaluate_call(h, scope, name, arguments, depth) ==
    LET function_data == resolve(h, scope, name) IN
    IF Failed(function_data.r) THEN function_data
    ELSE IF function_data.r.v.tag # "Function"
         THEN Ret(function_data.h, Runtime("Identifier is not callable", name, 0, 0))
    ELSE LET argument_count == Len(arguments)
             parameter_count == Len(function_data.r.v.parameters)
         IN IF argument_count # parameter_count
            THEN Ret(function_data.h,
                     Runtime("Expected arguments but received", "", parameter_count, argument_count))
            ELSE call_function(function_data.h, function_data.r.v.scope,
                               function_data.r.v.parameters, function_data.r.v.body,
                               arguments, depth)

evaluate_reference(h, scope, r) ==
    LET found_scope == find_scope_by_identifier(h, scope, r, {scope}) IN
    IF ~found_scope.ok THEN Ret(h, found_scope.e)
    ELSE LET referenced_value == resolve(h, scope, r) IN
         IF Failed(referenced_value.r) THEN referenced_value
         ELSE Ret(borrow(referenced_value.h, scope,
                         [identifier |-> r, scope |-> found_scope.scope,
                          value |-> referenced_value.r.v]),
                  referenced_value.r)

\* Mutant of evaluate_operand: the operand's changes to the scopes are lost.
evaluate_operand_NoEffect(h, scope, operand, depth, side) ==
    LET out == evaluate(h, scope, operand, depth) IN
    IF out.r.kind = "none"
    THEN Ret(h, Runtime("Expected expression, but received statement as operand", side, 0, 0))
    ELSE Ret(h, out.r)

evaluate_operand(h, scope, operand, depth, side) ==
    LET out == evaluate(h, scope, operand, depth) IN
    IF out.r.kind = "none"
    THEN Ret(out.h, Runtime("Expected expression, but received statement as operand", side, 0, 0))
    ELSE out

evaluate_block(h, scope, b, depth) ==
    LET child_scope == Len(h) + 1
        body == evaluate_nodes(Append(h, Scope_new(scope)), child_scope, b, <<>>, depth)
    IN  IF body.aborted THEN Ret(body.h, body.results[Len(body.results)])
        ELSE LET returned == return_references(body.h, child_scope) IN
             IF Failed(returned.r) THEN returned
             ELSE Ret(returned.h, last_result(body.results))

evaluate_expression(h, scope, expression, depth) ==
    CASE expression.t = "Identifier" -> resolve(h, scope, expression.name)
      [] expression.t = "Number" -> Ret(h, OkSome(DataNumber(expression.n)))
      [] expression.t = "Boolean" -> Ret(h, OkSome(DataBoolean(expression.b)))
      [] expression.t = "Reference" -> evaluate_reference(h, scope, expression.name)
      [] expression.t = "BinaryExpression" ->
            LET left == evaluate_operand(h, scope, expression.kids[1], depth, "left") IN
            IF Failed(left.r) THEN left
            ELSE LET right == evaluate_operand(left.h, scope, expression.kids[2], depth, "right") IN
                 IF Failed(right.r) THEN right
                 ELSE Ret(right.h, evaluate_binary_expression(expression.name, left.r.v, right.r.v))
      [] expression.t = "Call" -> evaluate_call(h, scope, expression.name, expression.kids, depth)
      [] expression.t = "Block" -> evaluate_block(h, scope, expression.kids, depth)
      [] expression.t = "Program" ->
            LET body == evaluate_nodes(h, scope, expression.kids, <<>>, depth) IN
            IF body.aborted THEN Ret(body.h, body.results[Len(body.results)])
            ELSE Ret(body.h, last_result(body.results))

evaluate_statement(h, scope, statement, depth) ==
    IF statement.t = "Variable"
    THEN LET data == evaluate(h, scope, statement.kids[1], depth) IN
         IF Failed(data.r) THEN data
         ELSE IF data.r.kind = "none"
              THEN Ret(data.h, Runtime("Expected expression, but received statement", "", 0, 0))
         ELSE Ret(declare(data.h, scope, statement.name, data.r.v), OkNone)
    ELSE LET definition_scope == Len(h) + 1 IN
         Ret(declare(Append(h, Scope_new(scope)), scope, statement.name,
                     DataFunction(statement.params, statement.kids[1], definition_scope)),
             OkNone)

evaluate(h, scope, node, depth) ==
    IF IsStatement(node) THEN evaluate_statement(h, scope, node, depth)
    ELSE evaluate_expression(h, scope, node, depth)

---------------------------------------------------------------------------
(* The run of a program (runner.rs): a Program node is evaluated on a      *)
(* fresh root scope, node after node.  The program is any sequence of at   *)
(* most MaxNodes of the nodes below, which are what the parser builds for  *)
(* the source text beside them (a Block holds expression nodes only).      *)

LetX == Variable("x", Number(1))                             \* let x = 1
LetB == Variable("b", Boolean(TRUE))                         \* let b = true
FnF == Function("f", <<"a">>, Identifier("a"))               \* fn f(a) = a
CallF1 == Call("f", <<Number(1)>>)                           \* f(1)
CallFA == Call("f", <<Identifier("a")>>)                     \* f(a)
CallFBB == Call("f", <<Identifier("b"), Reference("b")>>)    \* f(b, b&)
DivZero == BinaryExpression("/", Number(1), Number(0))       \* 1 / 0
BlockB == Block(<<Identifier("b")>>)                         \* { b }
IdB == Identifier("b")                                       \* b
IdF == Identifier("f")                                       \* f
RefF == Reference("f")                                       \* f&
BlockRefX == Block(<<Reference("x")>>)                       \* { x& }
BlockXRefX == Block(<<Identifier("x"), Reference("x")>>)     \* { x  x& }
BlockDiv == Block(<<DivZero, Number(2)>>)                    \* { 1 / 0  2 }
\* fn r(n) = { r(0 / n)  n }
FnR == Function("r", <<"n">>,
                Block(<<Call("r", <<BinaryExpression("/", Number(0), Identifier("n"))>>),
                        Identifier("n")>>))
CallR5 == Call("r", <<Number(5)>>)                           \* r(5)

\* The nodes by name; `program` holds the names.
Nodes ==
    [LetX |-> LetX, LetB |-> LetB, FnF |-> FnF, CallF1 |-> CallF1, CallFA |-> CallFA,
     CallFBB |-> CallFBB, DivZero |-> DivZero, BlockB |-> BlockB, IdB |-> IdB, IdF |-> IdF,
     RefF |-> RefF, BlockRefX |-> BlockRefX, BlockXRefX |-> BlockXRefX, BlockDiv |-> BlockDiv,
     FnR |-> FnR, CallR5 |-> CallR5]

---------------------------------------------------------------------------
(* The lexer (lexer.rs).  A text is a sequence of characters, a character  *)
(* a string of length 1; the String a token carries is the sequence of its *)
(* characters.                                                             *)

TokenKeyword(value) == [type |-> "Keyword", value |-> value, b |-> FALSE]
TokenIdentifier(value) == [type |-> "Identifier", value |-> value, b |-> FALSE]
TokenNumber(value) == [type |-> "Number", value |-> value, b |-> FALSE]
TokenOperator(value) == [type |-> "Operator", value |-> value, b |-> FALSE]
TokenAssignment == [type |-> "Assignment", value |-> <<>>, b |-> FALSE]
TokenSpecialCharacter(c) == [type |-> "SpecialCharacter", value |-> <<c>>, b |-> FALSE]
\* Token::Boolean is matched by parser/expression.rs; lexer.rs has no such
\* variant and tokenize never builds one.
TokenBoolean(b) == [type |-> "Boolean", value |-> <<>>, b |-> b]

LexOk(toks) == [ok |-> TRUE, tokens |-> toks, c |-> "", line |-> 0, character |-> 0]
\* MovaError::Lexer { "Unexpected character: 'c'", Position { line, character } }
LexError(c, line, character) ==
    [ok |-> FALSE, tokens |-> <<>>, c |-> c, line |-> line, character |-> character]

\* char::is_whitespace, on the characters of ASCII
Whitespace == {" ", "\n", "\t", "\r"}
Digits == {"0", "1", "2", "3", "4", "5", "6", "7", "8", "9"}
\* 'a'..='z' | 'A'..='Z' | '_'
Letters ==
    {"a", "b", "c", "d", "e", "f", "g", "h", "i", "j", "k", "l", "m", "n", "o", "p", "q",
     "r", "s", "t", "u", "v", "w", "x", "y", "z",
     "A", "B", "C", "D", "E", "F", "G", "H", "I", "J", "K", "L", "M", "N", "O", "P", "Q",
     "R", "S", "T", "U", "V", "W", "X", "Y", "Z", "_"}

\* Mutant of is_comment: `//` does not start a comment.
is_comment_Never(text, i) == FALSE

\* `if let Some((_, '/')) = input.peek()` after a '/' at index i
is_comment(text, i) == i + 1 <= Len(text) /\ text[i + 1] = "/"

\* `while let Some((_, l)) = input.peek()`: the index of the first character
\* from i on that is not in `class`, Len(text) + 1 when there is none.
RECURSIVE take_while(_, _, _)
take_while(text, i, class) ==
    IF i <= Len(text) /\ text[i] \in class THEN take_while(text, i + 1, class) ELSE i

\* `while let Some((_, n)) = input.next()` of a comment: the index of the
\* first '\n' from i on, Len(text) + 1 when there is none.
RECURSIVE find_newline(_, _)
find_newline(text, i) ==
    IF i > Len(text) \/ text[i] = "\n" THEN i ELSE find_newline(text, i + 1)

word_token(value) ==
    IF value \in {<<"l", "e", "t">>, <<"f", "n">>}
    THEN TokenKeyword(value)
    ELSE TokenIdentifier(value)

\* The loop of tokenize from index i (1-based) on, `line` being the current
\* line and `toks` the tokens pushed so far.
RECURSIVE scan(_, _, _, _)
scan(text, i, line, toks) ==
    IF i > Len(text) THEN LexOk(toks)
    ELSE LET c == text[i] IN
         IF c \in Whitespace
         THEN scan(text, i + 1, IF c = "\n" THEN line + 1 ELSE line, toks)
         ELSE IF c = "/"
         THEN IF is_comment(text, i)
              THEN LET e == find_newline(text, i + 2) IN
                   IF e > Len(text) THEN LexOk(toks) ELSE scan(text, e + 1, line + 1, toks)
              ELSE scan(text, i + 1, line, Append(toks, TokenOperator(<<c>>)))
         ELSE IF c \in Letters
         THEN LET e == take_while(text, i + 1, Letters \cup Digits) IN
              scan(text, e, line, Append(toks, word_token(SubSeq(text, i, e - 1))))
         ELSE IF c \in Digits
         THEN LET e == take_while(text, i + 1, Digits) IN
              scan(text, e, line, Append(toks, TokenNumber(SubSeq(text, i, e - 1))))
         ELSE IF c \in {"+", "-", "*", "(", ")"}
         THEN scan(text, i + 1, line, Append(toks, TokenOperator(<<c>>)))
         ELSE IF c = "="
         THEN scan(text, i + 1, line, Append(toks, TokenAssignment))
         ELSE IF c \in {"{", "}", ","}
         THEN scan(text, i + 1, line, Append(toks, TokenSpecialCharacter(c)))
         ELSE LexError(c, line, i - 1)

tokenize(text) == scan(text, 1, 1, <<>>)

---------------------------------------------------------------------------
(* The parser (parser/node.rs, statement.rs, expression.rs).  parse        *)
(* reverses the Vec of tokens and the parse functions pop from its end;    *)
(* here `tokens` is the rest of the input in source order, `tokens.last()` *)
(* its head and `tokens.pop()` its tail.  A parse function returns the     *)
(* rest of the tokens with its Result.                                     *)

ParseOk(tokens, node) == [ok |-> TRUE, tokens |-> tokens, node |-> node, msg |-> ""]
\* MovaError::Parser(msg), without the token the message quotes
ParseError(msg) == [ok |-> FALSE, tokens |-> <<>>, node |-> NoExpr, msg |-> msg]

\* The Rc<String> of a name, from the String of its token.
RECURSIVE Text(_)
Text(value) == IF value = <<>> THEN "" ELSE Head(value) \o Text(Tail(value))

DigitValue(c) ==
    CASE c = "0" -> 0 [] c = "1" -> 1 [] c = "2" -> 2 [] c = "3" -> 3 [] c = "4" -> 4
      [] c = "5" -> 5 [] c = "6" -> 6 [] c = "7" -> 7 [] c = "8" -> 8 [] c = "9" -> 9

\* `n.parse::<i32>()` on a string of digits: the number, or -1 for Err when
\* it is above i32::MAX.
RECURSIVE parse_i32(_, _)
parse_i32(value, acc) ==
    IF value = <<>> THEN acc
    ELSE LET d == DigitValue(Head(value)) IN
         IF acc > (MaxI32 - d) \div 10 THEN -1 ELSE parse_i32(Tail(value), acc * 10 + d)

\* Mutant of get_infix_binding_power: one precedence for the four operators.
get_infix_binding_power_Flat(operator) ==
    IF operator \in {"+", "-", "*", "/"} THEN <<3, 4>> ELSE <<>>

get_infix_binding_power(operator) ==
    IF operator \in {"+", "-"} THEN <<3, 4>>
    ELSE IF operator \in {"*", "/"} THEN <<5, 6>>
    ELSE <<>>

get_postfix_binding_power(operator) ==
    IF operator \in {"(", "&"} THEN <<2>> ELSE <<>>

IsOperator(token, o) == token.type = "Operator" /\ token.value = <<o>>
IsSpecialCharacter(token, c) == token.type = "SpecialCharacter" /\ token.value = <<c>>

RECURSIVE parse_expression(_)
RECURSIVE parse_statement(_)
RECURSIVE parse_binary_expression(_, _)

\* The loop of parse_call, after the `(` has been popped.
RECURSIVE parse_arguments(_, _)
parse_arguments(tokens, parameters) ==
    IF tokens = <<>>
    THEN ParseError("Expected another argument expression or argument list to be closed")
    ELSE IF IsOperator(Head(tokens), ")")
    THEN ParseOk(Tail(tokens), parameters)
    ELSE LET argument == parse_expression(tokens) IN
         IF ~argument.ok THEN argument
         ELSE LET rest == argument.tokens
                  pushed == Append(parameters, argument.node)
              IN IF rest = <<>> THEN ParseError("Expected argument list to be closed")
                 ELSE IF IsSpecialCharacter(Head(rest), ",")
                 THEN parse_arguments(Tail(rest), pushed)
                 ELSE IF IsOperator(Head(rest), ")")
                 THEN parse_arguments(rest, pushed)
                 ELSE ParseError(
                     "Expected another argument expression or argument list to be closed")

parse_call(tokens, left) ==
    LET arguments == parse_arguments(Tail(tokens), <<>>) IN
    IF ~arguments.ok THEN arguments
    ELSE IF left.t = "Identifier"
    THEN ParseOk(arguments.tokens, Call(left.name, arguments.node))
    ELSE ParseError("Expected identifier to be called but found")

\* The `while let Some(t) = tokens.last()` loop of parse_binary_expression.
RECURSIVE parse_operators(_, _, _)
parse_operators(tokens, left, binding_power) ==
    IF tokens = <<>> \/ Head(tokens).type # "Operator" THEN ParseOk(tokens, left)
    ELSE LET o == Text(Head(tokens).value)
             postfix == get_postfix_binding_power(o)
             infix == get_infix_binding_power(o)
         IN IF postfix # <<>>
            THEN IF postfix[1] < binding_power THEN ParseOk(tokens, left)
                 ELSE IF o = "("
                 THEN LET call == parse_call(tokens, left) IN
                      IF ~call.ok THEN call
                      ELSE parse_operators(call.tokens, call.node, binding_power)
                 ELSE IF left.t = "Identifier"
                 THEN parse_operators(Tail(tokens), Reference(left.name), binding_power)
                 ELSE ParseError("Unexpected token found")
            ELSE IF infix # <<>>
            THEN IF infix[1] < binding_power THEN ParseOk(tokens, left)
                 ELSE LET right == parse_binary_expression(Tail(tokens), infix[2]) IN
                      IF ~right.ok THEN right
                      ELSE parse_operators(right.tokens,
                                           BinaryExpression(o, left, right.node),
                                           binding_power)
            ELSE ParseOk(tokens, left)

parse_binary_expression(tokens, binding_power) ==
    IF tokens = <<>> THEN ParseError("Unexpected end of input")
    ELSE LET t == Head(tokens) IN
         IF t.type = "Identifier"
         THEN parse_operators(Tail(tokens), Identifier(Text(t.value)), binding_power)
         ELSE IF t.type = "Number"
         THEN IF parse_i32(t.value, 0) < 0 THEN ParseError("Invalid number")
              ELSE parse_operators(Tail(tokens), Number(parse_i32(t.value, 0)), binding_power)
         ELSE IF t.type = "Boolean"
         THEN parse_operators(Tail(tokens), Boolean(t.b), binding_power)
         ELSE ParseError("Unexpected token found")

\* The loop of parse_block, after the `{` has been popped: a parsed node is
\* pushed onto the body only `if let Node::Expression(_) = &result`.
RECURSIVE parse_block_body(_, _)
parse_block_body(tokens, body) ==
    IF tokens = <<>> THEN ParseError("Expected block to be closed")
    ELSE IF IsSpecialCharacter(Head(tokens), "}") THEN ParseOk(Tail(tokens), Block(body))
    ELSE LET result == parse_statement(tokens) IN
         IF ~result.ok THEN result
         ELSE parse_block_body(result.tokens,
                               IF IsStatement(result.node) THEN body
                               ELSE Append(body, result.node))

parse_block(tokens) ==
    IF tokens = <<>> THEN ParseError("Unexpected end of input")
    ELSE IF IsSpecialCharacter(Head(tokens), "{") THEN parse_block_body(Tail(tokens), <<>>)
    ELSE parse_binary_expression(tokens, 0)

parse_expression(tokens) == parse_block(tokens)

parse_variable_declaration(tokens) ==
    LET after_let == Tail(tokens) IN
    IF after_let = <<>> THEN ParseError("Expected identifier after let keyword")
    ELSE IF Head(after_let).type # "Identifier" THEN ParseError("Expected identifier but got")
    ELSE LET name == Text(Head(after_let).value)
             after_name == Tail(after_let)
         IN IF after_name = <<>> THEN ParseError("Expected assignment after identifier")
            ELSE IF Head(after_name).type # "Assignment"
            THEN ParseError("Unexpected token found")
            ELSE LET v == parse_expression(Tail(after_name)) IN
                 IF ~v.ok THEN v ELSE ParseOk(v.tokens, Variable(name, v.node))

\* The loop over the parameter list of parse_function: every token before the
\* `)` is popped, the identifiers among them are the parameters.
RECURSIVE parse_parameters(_, _)
parse_parameters(tokens, parameters) ==
    IF tokens = <<>> THEN ParseError("Expected parameter list to be closed")
    ELSE IF IsOperator(Head(tokens), ")") THEN ParseOk(tokens, parameters)
    ELSE parse_parameters(Tail(tokens),
                          IF Head(tokens).type = "Identifier"
                          THEN Append(parameters, Text(Head(tokens).value))
                          ELSE parameters)

parse_function(tokens) ==
    LET after_fn == Tail(tokens) IN
    IF after_fn = <<>> \/ Head(after_fn).type # "Identifier"
    THEN ParseError("Expected function name after fn keyword")
    ELSE LET name == Text(Head(after_fn).value)
             after_name == Tail(after_fn)
         IN IF after_name = <<>> \/ ~IsOperator(Head(after_name), "(")
            THEN ParseError("Expected parameter list after function name")
            ELSE LET parameters == parse_parameters(Tail(after_name), <<>>) IN
                 IF ~parameters.ok THEN parameters
                 ELSE LET after_list == Tail(parameters.tokens) IN
                      IF after_list = <<>> \/ Head(after_list).type # "Assignment"
                      THEN ParseError("Expected assignment before function body")
                      ELSE LET body == parse_expression(Tail(after_list)) IN
                           IF ~body.ok THEN body
                           ELSE ParseOk(body.tokens,
                                        Function(name, parameters.node, body.node))

parse_statement(tokens) ==
    IF tokens = <<>> THEN ParseError("Unexpected end of input")
    ELSE IF Head(tokens).type = "Keyword"
    THEN IF Head(tokens).value = <<"l", "e", "t">> THEN parse_variable_declaration(tokens)
         ELSE IF Head(tokens).value = <<"f", "n">> THEN parse_function(tokens)
         ELSE ParseError("Unexpected keyword found")
    ELSE parse_expression(tokens)

\* The loop of parse (node.rs).
RECURSIVE parse_nodes(_, _)
parse_nodes(tokens, body) ==
    IF tokens = <<>> THEN ParseOk(<<>>, Program(body))
    ELSE LET result == parse_statement(tokens) IN
         IF ~result.ok THEN result
         ELSE parse_nodes(result.tokens, Append(body, result.node))

parse(tokens) == parse_nodes(tokens, <<>>)

\* runner.rs: evaluate(program, Scope::new(None)) on the Result of parse.
run_parsed(node) == evaluate(<<Scope_new(0)>>, 1, node, MaxDepth)

VARIABLES
    program,    \* the names of the nodes evaluated so far
    results,    \* the Vec of their results
    scopes,     \* the heap of scopes; scopes[1] is the root scope
    prev,       \* the heap before the last node was evaluated
    pc,         \* "running", "done" or "aborted"
    final       \* the Result of the whole Program once pc = "done"

\* Operands and outcome of one evaluate_binary_expression.
VARIABLES operator, left, right, out

\* The slots (data.rs, BorrowableData) and, per slot, the number of live
\* Reference handles whose `source` is that slot.
VARIABLES slots, handles

\* runner.rs: the input text, the Result of tokenize, the tokens handed to
\* parse, the Result of parse and the Result of evaluate.
VARIABLES input, lexed, stream, parsed, outcome

evalVars == <<program, results, scopes, prev, final>>
arithVars == <<operator, left, right, out>>
slotVars == <<slots, handles>>
textVars == <<input, lexed, stream, parsed, outcome>>
vars == <<pc, overflow_checks, evalVars, arithVars, slotVars, textVars>>

Root == 1

EvalIdle ==
    /\ program = <<>>
    /\ results = <<>>
    /\ scopes = <<Scope_new(0)>>
    /\ prev = <<Scope_new(0)>>
    /\ final = OkNone

ArithIdle ==
    /\ operator = "+"
    /\ left = NoData
    /\ right = NoData
    /\ out = OkNone

SlotIdle ==
    /\ slots = <<>>
    /\ handles = <<>>

TextIdle ==
    /\ input = <<>>
    /\ lexed = LexOk(<<>>)
    /\ stream = <<>>
    /\ parsed = ParseError("")
    /\ outcome = OkNone

Init ==
    /\ pc = "running"
    /\ overflow_checks \in BOOLEAN
    /\ EvalIdle
    /\ ArithIdle
    /\ SlotIdle
    /\ TextIdle

\* One turn of the loop of Expression::Program.
EvalNode(k) ==
    /\ pc = "running"
    /\ Len(program) < MaxNodes
    /\ LET o == evaluate(scopes, Root, Nodes[k], MaxDepth) IN
       /\ program' = Append(program, k)
       /\ results' = Append(results, o.r)
       /\ scopes' = o.h
       /\ prev' = scopes
       /\ pc' = IF o.r.kind = "abort" THEN "aborted" ELSE "running"
    /\ UNCHANGED <<final, overflow_checks, arithVars, slotVars, textVars>>

\* The end of Expression::Program: the Result of the last node.
Finish ==
    /\ pc = "running"
    /\ pc' = "done"
    /\ final' = last_result(results)
    /\ UNCHANGED <<program, results, scopes, prev, overflow_checks, arithVars, slotVars, textVars>>

Next == (\E k \in DOMAIN Nodes : EvalNode(k)) \/ Finish

Spec == Init /\ [][Next]_vars

---------------------------------------------------------------------------
(* evaluate_binary_expression on its own: any operator of the grammar on   *)
(* any two operands, in either build.                                      *)

Operators == {"+", "-", "*", "/"}

Operands ==
    {DataNumber(n) : n \in {MinI32, -7, -1, 0, 1, 2, 7, MaxI32}} \cup {DataBoolean(TRUE)}

InitArith ==
    /\ pc = "operands"
    /\ overflow_checks \in BOOLEAN
    /\ operator \in Operators
    /\ left \in Operands
    /\ right \in Operands
    /\ out = OkNone
    /\ EvalIdle
    /\ SlotIdle
    /\ TextIdle

Apply ==
    /\ pc = "operands"
    /\ out' = evaluate_binary_expression(operator, left, right)
    /\ pc' = "applied"
    /\ UNCHANGED <<overflow_checks, operator, left, right, evalVars, slotVars, textVars>>

NextArith == Apply

SpecArith == InitArith /\ [][NextArith]_vars

---------------------------------------------------------------------------
(* Slots and Reference handles (data.rs).  A Reference is {source: Slot};  *)
(* its derived Clone copies the Rc of the slot, its Drop decrements the    *)
(* slot's borrow_count when that is above zero.  Between two operations of *)
(* the single-threaded evaluator no RefCell borrow of a slot is            *)
(* outstanding, so the try_borrow_mut of Drop succeeds.                    *)

\* Number of slots.
MaxSlots == 2
\* Number of Reference handles alive at once.
MaxHandles == 4

SlotIds == 1..MaxSlots

RECURSIVE Sum(_, _)
Sum(f, n) == IF n = 0 THEN 0 ELSE f[n] + Sum(f, n - 1)

LiveHandles == Sum(handles, MaxSlots)

\* A slot as it is created (spec 4.3).
BorrowableData(value) == [value |-> value, borrow_count |-> 0, is_mutably_borrowed |-> FALSE]

InitSlot ==
    /\ pc = "slots"
    /\ overflow_checks = FALSE
    /\ slots \in [SlotIds -> {BorrowableData(DataNumber(1)), BorrowableData(DataBoolean(TRUE))}]
    /\ handles = [s \in SlotIds |-> 0]
    /\ EvalIdle
    /\ ArithIdle
    /\ TextIdle

\* Scope::borrow(name) of the spec (4.4): the count goes up by one and a
\* Reference keyed to the slot is returned.
BorrowSlot(s) ==
    /\ pc = "slots"
    /\ LiveHandles < MaxHandles
    /\ slots[s].value.tag # "Moved"
    /\ ~slots[s].is_mutably_borrowed
    /\ slots' = [slots EXCEPT ![s].borrow_count = @ + 1]
    /\ handles' = [handles EXCEPT ![s] = @ + 1]
    /\ UNCHANGED <<pc, overflow_checks, evalVars, arithVars, textVars>>

\* #[derive(Clone)] on Reference: a second handle on the same slot; the slot
\* is not touched.
CloneReference(s) ==
    /\ pc = "slots"
    /\ LiveHandles < MaxHandles
    /\ handles[s] > 0
    /\ handles' = [handles EXCEPT ![s] = @ + 1]
    /\ UNCHANGED <<slots, pc, overflow_checks, evalVars, arithVars, textVars>>

\* impl Drop for Reference.
DropReference(s) ==
    /\ pc = "slots"
    /\ handles[s] > 0
    /\ handles' = [handles EXCEPT ![s] = @ - 1]
    /\ slots' = [slots EXCEPT ![s].borrow_count = IF @ > 0 THEN @ - 1 ELSE @]
    /\ UNCHANGED <<pc, overflow_checks, evalVars, arithVars, textVars>>

NextSlot == \E s \in SlotIds : BorrowSlot(s) \/ CloneReference(s) \/ DropReference(s)

SpecSlot == InitSlot /\ [][NextSlot]_vars

---------------------------------------------------------------------------
(* Programs about the scope a function body runs in: a function g whose    *)
(* body reads the free name x, called from the root scope, from a block    *)
(* and from the body of h, whose parameter is also called x.               *)

MaxScopeNodes == 4

FnG == Function("g", <<>>, Identifier("x"))                            \* fn g() = x
FnH == Function("h", <<"x">>, Call("g", <<>>))                         \* fn h(x) = g()
CallH5 == Call("h", <<Number(5)>>)                                     \* h(5)
CallG == Call("g", <<>>)                                               \* g()
BlockG == Block(<<Call("g", <<>>)>>)                                   \* { g() }

ScopeNodes ==
    [LetX |-> LetX, FnG |-> FnG, FnH |-> FnH, CallH5 |-> CallH5, CallG |-> CallG,
     BlockG |-> BlockG]

\* One turn of the loop of Expression::Program.
EvalScopeNode(k) ==
    /\ pc = "running"
    /\ Len(program) < MaxScopeNodes
    /\ LET o == evaluate(scopes, Root, ScopeNodes[k], MaxDepth) IN
       /\ program' = Append(program, k)
       /\ results' = Append(results, o.r)
       /\ scopes' = o.h
       /\ prev' = scopes
       /\ pc' = IF o.r.kind = "abort" THEN "aborted" ELSE "running"
    /\ UNCHANGED <<final, overflow_checks, arithVars, slotVars, textVars>>

NextScope == (\E k \in DOMAIN ScopeNodes : EvalScopeNode(k)) \/ Finish

SpecScope == Init /\ [][NextScope]_vars

---------------------------------------------------------------------------
(* tokenize on its own.  The texts are every string of up to MaxChars      *)
(* characters over CommentChars, every string of up to MaxSymbols          *)
(* characters over SymbolChars, and every concatenation of up to MaxPieces *)
(* of the WordPieces.                                                      *)

MaxChars == 6
MaxSymbols == 2
MaxPieces == 3

CommentChars == {"1", "c", "/", "\n"}
SymbolChars == {"+", "-", "*", "/", "(", ")", "&", "=", "{", "}", ",", "#", " "}
WordPieces ==
    {<<"l", "e", "t">>, <<"f", "n">>, <<"t", "r", "u", "e">>, <<"f", "a", "l", "s", "e">>,
     <<"x">>, <<"_">>, <<"1">>, <<" ">>}

Strings(chars, n) == UNION {[1..k -> chars] : k \in 0..n}

RECURSIVE Flatten(_)
Flatten(pieces) == IF pieces = <<>> THEN <<>> ELSE Head(pieces) \o Flatten(Tail(pieces))

Texts ==
    Strings(CommentChars, MaxChars) \cup Strings(SymbolChars, MaxSymbols)
        \cup {Flatten(pieces) : pieces \in Strings(WordPieces, MaxPieces)}

InitLex ==
    /\ pc = "text"
    /\ overflow_checks = FALSE
    /\ input \in Texts
    /\ lexed = LexOk(<<>>)
    /\ stream = <<>>
    /\ parsed = ParseError("")
    /\ outcome = OkNone
    /\ EvalIdle
    /\ ArithIdle
    /\ SlotIdle

Tokenize ==
    /\ pc = "text"
    /\ lexed' = tokenize(input)
    /\ pc' = "tokenized"
    /\ UNCHANGED <<input, stream, parsed, outcome, overflow_checks, evalVars, arithVars, slotVars>>

NextLex == Tokenize

SpecLex == InitLex /\ [][NextLex]_vars

---------------------------------------------------------------------------
(* parse and evaluate on streams of tokens (runner.rs after tokenize).     *)
(* The streams are the chains of up to MaxOperators infix operators over   *)
(* the atoms a, b, c, 1, alone and after `let a = 2  let b = 3  let c = 4`;*)
(* an atom and a call or reference joined by an infix operator, in both    *)
(* orders; and `fn f(n) = { ... }  f(41)` with up to MaxBlockNodes nodes   *)
(* in the block.                                                           *)

MaxOperators == 2
MaxBlockNodes == 2

Id(c) == TokenIdentifier(<<c>>)
Num(c) == TokenNumber(<<c>>)
Op(c) == TokenOperator(<<c>>)
Let == TokenKeyword(<<"l", "e", "t">>)
Fn == TokenKeyword(<<"f", "n">>)

AtomTokens == {Id("a"), Id("b"), Id("c"), Num("1")}
InfixTokens == {Op("+"), Op("-"), Op("*"), Op("/")}

\* atoms[1] ops[1] atoms[2] ... ops[k] atoms[k + 1]
Chain(atoms, ops) ==
    [i \in 1..(2 * Len(ops) + 1) |-> IF i % 2 = 1 THEN atoms[(i + 1) \div 2] ELSE ops[i \div 2]]

Chains ==
    UNION {{Chain(atoms, ops) : atoms \in [1..(k + 1) -> AtomTokens], ops \in [1..k -> InfixTokens]}
           : k \in 0..MaxOperators}

\* let a = 2  let b = 3  let c = 4
LetPrefix ==
    <<Let, Id("a"), TokenAssignment, Num("2"), Let, Id("b"), TokenAssignment, Num("3"),
      Let, Id("c"), TokenAssignment, Num("4")>>

\* f(b), f(), f(a, b), x&
Postfixes ==
    {<<Id("f"), Op("("), Id("b"), Op(")")>>,
     <<Id("f"), Op("("), Op(")")>>,
     <<Id("f"), Op("("), Id("a"), TokenSpecialCharacter(","), Id("b"), Op(")")>>,
     <<Id("x"), Op("&")>>}

PostfixStreams ==
    {<<a, o>> \o q : a \in AtomTokens, o \in InfixTokens, q \in Postfixes}
        \cup {q \o <<o, a>> : a \in AtomTokens, o \in InfixTokens, q \in Postfixes}

\* let m = n;  m + 1;  fn g() = 1;  m;  1
BlockChunks ==
    {<<Let, Id("m"), TokenAssignment, Id("n")>>,
     <<Id("m"), Op("+"), Num("1")>>,
     <<Fn, Id("g"), Op("("), Op(")"), TokenAssignment, Num("1")>>,
     <<Id("m")>>,
     <<Num("1")>>}

\* fn f(n) = { chunks }  f(41)
BlockStream(chunks) ==
    <<Fn, Id("f"), Op("("), Id("n"), Op(")"), TokenAssignment, TokenSpecialCharacter("{")>>
        \o Flatten(chunks)
        \o <<TokenSpecialCharacter("}"), Id("f"), Op("("), TokenNumber(<<"4", "1">>), Op(")")>>

Streams ==
    Chains \cup {LetPrefix \o chain : chain \in Chains} \cup PostfixStreams
        \cup {BlockStream(chunks) : chunks \in Strings(BlockChunks, MaxBlockNodes)}

InitParse ==
    /\ pc = "tokens"
    /\ overflow_checks = FALSE
    /\ input = <<>>
    /\ lexed = LexOk(<<>>)
    /\ stream \in Streams
    /\ parsed = ParseError("")
    /\ outcome = OkNone
    /\ EvalIdle
    /\ ArithIdle
    /\ SlotIdle

\* let program = parse(tokens)?;
Parse ==
    /\ pc = "tokens"
    /\ parsed' = parse(stream)
    /\ pc' = IF parsed'.ok THEN "parsed" ELSE "failed"
    /\ UNCHANGED <<input, lexed, stream, outcome, overflow_checks, evalVars, arithVars, slotVars>>

\* evaluate(program, Rc::new(RefCell::new(Scope::new(None))))
Evaluate ==
    /\ pc = "parsed"
    /\ outcome' = run_parsed(parsed.node).r
    /\ pc' = "evaluated"
    /\ UNCHANGED <<input, lexed, stream, parsed, overflow_checks, evalVars, arithVars, slotVars>>

NextParse == Parse \/ Evaluate

SpecParse == InitParse /\ [][NextParse]_vars

---------------------------------------------------------------------------
(* Programs about the order of the operands of a BinaryExpression: blocks  *)
(* whose operands read b from the enclosing scope, which moves it, or      *)
(* divide by zero.                                                         *)

MaxOrderNodes == 3

\* { 1 / 0 + b }
BlockFailLeft ==
    Block(<<BinaryExpression("+", BinaryExpression("/", Number(1), Number(0)), Identifier("b"))>>)
\* { b + 1 / 0 }
BlockFailRight ==
    Block(<<BinaryExpression("+", Identifier("b"), BinaryExpression("/", Number(1), Number(0)))>>)
\* { b + b }
BlockBoth == Block(<<BinaryExpression("+", Identifier("b"), Identifier("b"))>>)

OrderNodes ==
    [LetB |-> LetB, IdB |-> IdB, BlockFailLeft |-> BlockFailLeft,
     BlockFailRight |-> BlockFailRight, BlockBoth |-> BlockBoth]

\* One turn of the loop of Expression::Program.
EvalOrderNode(k) ==
    /\ pc = "running"
    /\ Len(program) < MaxOrderNodes
    /\ LET o == evaluate(scopes, Root, OrderNodes[k], MaxDepth) IN
       /\ program' = Append(program, k)
       /\ results' = Append(results, o.r)
       /\ scopes' = o.h
       /\ prev' = scopes
       /\ pc' = IF o.r.kind = "abort" THEN "aborted" ELSE "running"
    /\ UNCHANGED <<final, overflow_checks, arithVars, slotVars, textVars>>

NextOrder == (\E k \in DOMAIN OrderNodes : EvalOrderNode(k)) \/ Finish

SpecOrder == Init /\ [][NextOrder]_vars

---------------------------------------------------------------------------
(* Scope::declare and Scope::resolve on a chain of MaxChain scopes, each   *)
(* the parent of the next: up to MaxOps operations, on the Number x and    *)
(* on the affine value f, which is declared at most once.                  *)

MaxChain == 3
MaxOps == 3

ChainScopes == 1..MaxChain
ChainNames == {"x", "f"}
ChainData(name) == IF name = "x" THEN DataNumber(1) ELSE DataBoolean(TRUE)

InitChain ==
    /\ pc = "chain"
    /\ overflow_checks = FALSE
    /\ program = <<>>
    /\ results = <<>>
    /\ scopes = [s \in ChainScopes |-> Scope_new(s - 1)]
    /\ prev = [s \in ChainScopes |-> Scope_new(s - 1)]
    /\ final = OkNone
    /\ ArithIdle
    /\ SlotIdle
    /\ TextIdle

\* scope.declare(name, data)
Declare(s, name) ==
    /\ pc = "chain"
    /\ Len(program) < MaxOps
    /\ name = "f" => \A t \in ChainScopes : ~Contains(scopes[t].history, "f")
    /\ program' = Append(program, <<"declare", s, name>>)
    /\ results' = Append(results, OkNone)
    /\ prev' = scopes
    /\ scopes' = declare(scopes, s, name, ChainData(name))
    /\ UNCHANGED <<pc, final, overflow_checks, arithVars, slotVars, textVars>>

\* borrow_scope(&scope)?.resolve(name)
Resolve(s, name) ==
    /\ pc = "chain"
    /\ Len(program) < MaxOps
    /\ LET o == resolve(scopes, s, name) IN
       /\ program' = Append(program, <<"resolve", s, name>>)
       /\ results' = Append(results, o.r)
       /\ prev' = scopes
       /\ scopes' = o.h
    /\ UNCHANGED <<pc, final, overflow_checks, arithVars, slotVars, textVars>>

NextChain == \E s \in ChainScopes, name \in ChainNames : Declare(s, name) \/ Resolve(s, name)

SpecChain == InitChain /\ [][NextChain]_vars

---------------------------------------------------------------------------
(* The claims.                                                             *)

\* The last node evaluated and its result.
Ran == Len(program)
LastNode == Nodes[program[Ran]]
LastResult == results[Ran]

\* No `fn name` or `let name` is among the nodes i+1 .. j-1 of the program.
NotRedeclared(name, i, j) ==
    \A k \in (i + 1)..(j - 1) : ~(IsStatement(Nodes[program[k]]) /\ Nodes[program[k]].name = name)

\* Some scope holds a reference taken on `name`.
Outstanding(h, name) ==
    \E s \in 1..Len(h) : \E i \in 1..Len(h[s].references) : h[s].references[i].identifier = name

\* C1: when the evaluation of a node of a Program or Block fails, the whole
\* Program or Block returns that error and no later node is evaluated: a
\* failed node is the last one evaluated, the result of the Program is that
\* error, and a Block whose first node divides by zero yields the error.
C1_ErrorAbortsEvaluation ==
    /\ \A i \in 1..Len(results) : results[i].kind = "err" => i = Len(results)
    /\ pc = "done" => \A i \in 1..Len(results) : results[i].kind = "err" => final = results[i]
    /\ \A i \in 1..Len(results) :
           program[i] = "BlockDiv" => results[i] = Runtime("Division by zero", "", 0, 0)

\* C2: once `f&` has been evaluated in the root scope on the function f, every
\* later evaluation of Identifier(f) in that scope fails with a Runtime error
\* and leaves f bound.
C2_BorrowedNameIsNotReadable ==
    \A i \in 1..Ran : \A j \in (i + 1)..Ran :
        (/\ program[i] = "RefF"
         /\ results[i].kind = "ok"
         /\ program[j] = "IdF"
         /\ NotRedeclared("f", i, j))
        => results[j].kind = "err"

\* C3: a Block that evaluates `x&` on a name x of the enclosing scope leaves
\* without failing, and afterwards x is bound in the enclosing scope to the
\* value it had, with no reference to x outstanding; also when the block has
\* made x a local of its own before borrowing it.
C3_BlockExitReleasesBorrows ==
    (/\ Ran > 0
     /\ program[Ran] \in {"BlockRefX", "BlockXRefX"}
     /\ "x" \in DOMAIN prev[Root].locals)
    => /\ LastResult.kind = "ok"
       /\ "x" \in DOMAIN scopes[Root].locals
       /\ scopes[Root].locals["x"] = prev[Root].locals["x"]
       /\ ~Outstanding(scopes, "x")

\* C4: a binding of the root scope that holds a Number or a Boolean is still
\* there, with the same value, after any node that does not declare its name
\* has been evaluated, and a read of it from the root scope or from a block
\* returns that value.
C4_CopyableIsNeverConsumed ==
    Ran > 0 =>
        \A name \in DOMAIN prev[Root].locals :
            (/\ prev[Root].locals[name].tag \in {"Number", "Boolean"}
             /\ ~(IsStatement(LastNode) /\ LastNode.name = name))
            => /\ name \in DOMAIN scopes[Root].locals
               /\ scopes[Root].locals[name] = prev[Root].locals[name]
               /\ (LastNode \in {Identifier(name), Block(<<Identifier(name)>>)}
                      => LastResult = OkSome(prev[Root].locals[name]))

\* C5: after a read of the function f from the scope that declares it has
\* succeeded (`f` or `f(1)`), a further read from that scope with no declare
\* of f in between fails with a Runtime error.
C5_AffineIsReadOnce ==
    \A i \in 1..Ran : \A j \in (i + 1)..Ran :
        (/\ program[i] \in {"CallF1", "IdF"}
         /\ results[i].kind = "ok"
         /\ program[j] \in {"CallF1", "IdF"}
         /\ NotRedeclared("f", i, j))
        => results[j].kind = "err"

\* C6: every call runs in a scope of its own: no scope a function value
\* carries holds a parameter of that function once a call is over, and the
\* outer activation of r(5) still reads its own n = 5 after the inner call.
C6_ActivationsAreIsolated ==
    /\ \A s \in 1..Len(scopes) : \A name \in DOMAIN scopes[s].locals :
           LET d == scopes[s].locals[name] IN
           d.tag = "Function" =>
               \A i \in 1..Len(d.parameters) : d.parameters[i] \notin DOMAIN scopes[d.scope].locals
    /\ \A i \in 1..Ran :
           (program[i] = "CallR5" /\ results[i].kind = "ok") => results[i].v = DataNumber(5)

\* C7: the argument of `f(a)` is evaluated in the scope of the call: when the
\* root scope, where the call is written, binds no `a`, the call fails on the
\* unresolved `a`, and when it binds one, f receives that value.
C7_ArgumentsUseCallSiteScope ==
    (/\ Ran > 0
     /\ program[Ran] = "CallFA"
     /\ "f" \in DOMAIN prev[Root].locals
     /\ prev[Root].locals["f"].tag = "Function")
    => IF "a" \in DOMAIN prev[Root].locals
       THEN LastResult = OkSome(prev[Root].locals["a"])
       ELSE LastResult.kind = "err" /\ LastResult.id = "a"

\* C10: a call whose argument count M differs from the parameter count N of
\* the function its name resolves to fails with "Expected N arguments but
\* received M", and the scopes are as the resolution of the name alone leaves
\* them: no argument has been evaluated.
C10_ArityIsCheckedBeforeArguments ==
    Ran > 0 =>
        LET callee == resolve(prev, Root, LastNode.name) IN
        (/\ LastNode.t = "Call"
         /\ callee.r.kind = "ok"
         /\ callee.r.v.tag = "Function"
         /\ Len(LastNode.kids) # Len(callee.r.v.parameters))
        => /\ LastResult = Runtime("Expected arguments but received", "",
                                   Len(callee.r.v.parameters), Len(LastNode.kids))
           /\ scopes = callee.h

\* `f(b, b&)` was evaluated with f a function of one parameter and b bound in
\* the root scope: both arguments would have moved or borrowed b.
C10_Witness ==
    /\ Ran > 0
    /\ program[Ran] = "CallFBB"
    /\ "b" \in DOMAIN prev[Root].locals
    /\ "f" \in DOMAIN prev[Root].locals
    /\ Len(prev[Root].locals["f"].parameters) = 1
    /\ LastResult.msg = "Expected arguments but received"
    /\ LastResult.n = 1
    /\ LastResult.m = 2

\* The quotient of the absolute values, with the sign of the exact quotient;
\* for r # 0 and (l, r) # (i32::MIN, -1).  |i32::MIN| is not an i32, so its
\* quotients are spelled out.
TowardZero(l, r) ==
    LET ar == IF r = MinI32 THEN 0 ELSE Abs(r)
        aq == IF r = MinI32 THEN (IF l = MinI32 THEN 1 ELSE 0)
              ELSE IF l # MinI32 THEN Abs(l) \div ar
              ELSE IF ar = 1 THEN 0
              ELSE (MaxI32 \div ar) + (IF MaxI32 % ar = ar - 1 THEN 1 ELSE 0)
    IN  IF l = MinI32 /\ r = 1 THEN MinI32
        ELSE IF (l < 0) = (r < 0) THEN aq ELSE -aq

SumFits(l, r) == (l >= 0 /\ r >= 0 => l <= MaxI32 - r) /\ (l < 0 /\ r < 0 => l >= MinI32 - r)
DifferenceFits(l, r) == (l >= 0 /\ r < 0 => l <= MaxI32 + r) /\ (l < 0 /\ r >= 0 => l >= MinI32 + r)
ProductFits(l, r) ==
    \/ l \in {0, 1}
    \/ r \in {0, 1}
    \/ l = -1 /\ r # MinI32
    \/ r = -1 /\ l # MinI32
    \/ l \in -46340..46340 /\ r \in -46340..46340

C12_ValueIsLastExpression ==
    (pc = "done" /\ \A i \in 1..Ran : results[i].kind = "ok" \/ results[i].kind = "none")
    => LET expressions == {i \in 1..Ran : ~IsStatement(Nodes[program[i]])} IN
       IF expressions = {}
       THEN final = OkNone
       ELSE final = results[CHOOSE i \in expressions : \A j \in expressions : j <= i]

\* C16: evaluate_binary_expression on two Numbers ends with a Number or with
\* a Runtime error value, whatever the operands: also for i32::MAX + 1,
\* i32::MIN - 1 and i32::MIN / -1.
C16_ArithmeticEndsInValueOrError ==
    (pc = "applied" /\ left.tag = "Number" /\ right.tag = "Number")
    => out.kind \in {"ok", "err"}

\* C18: no node of any program ends with the Runtime error "Scope is already
\* borrowed".
C18_ScopeIsNeverBorrowedTwice ==
    \A i \in 1..Ran : results[i].msg # "Scope is already borrowed"

\* What the chain of scopes <<s, root>> binds `name` to: the binding of s
\* itself, or else that of the root scope.
BoundInChain(h, s, name) == name \in DOMAIN h[s].locals \/ name \in DOMAIN h[Root].locals
ValueInChain(h, s, name) ==
    IF name \in DOMAIN h[s].locals THEN h[s].locals[name] ELSE h[Root].locals[name]

\* The body `x` of g, with g found from scope `site`, gives what the chain of
\* g's own scope binds x to, and fails on x when that chain does not bind it.
LexicalResult(site) ==
    LET g == ValueInChain(prev, site, "g") IN
    IF BoundInChain(prev, g.scope, "x")
    THEN LastResult = OkSome(ValueInChain(prev, g.scope, "x"))
    ELSE LastResult.kind = "err" /\ LastResult.id = "x"

\* C17: the free name x in the body of g is resolved through the scopes of
\* the place where `fn g` was evaluated: g() called from the root scope, from
\* a block or from the body of h(5), whose own x is 5, yields the x of the
\* definition site, and fails on x when the definition site binds no x;
\* h(5) never yields the 5 of the call site.
C17_FreeNamesAreLexical ==
    Ran > 0 =>
        /\ (/\ program[Ran] \in {"CallG", "BlockG"}
            /\ "g" \in DOMAIN prev[Root].locals)
           => LexicalResult(Root)
        /\ (/\ program[Ran] = "CallH5"
            /\ "h" \in DOMAIN prev[Root].locals
            /\ BoundInChain(prev, prev[Root].locals["h"].scope, "g"))
           => /\ LexicalResult(prev[Root].locals["h"].scope)
              /\ LastResult # OkSome(DataNumber(5))

\* h(5) was called with x = 1 bound at the definition site of g: the body of
\* g read 1 although the call site binds x = 5.
C17_Witness ==
    /\ Ran > 0
    /\ program[Ran] = "CallH5"
    /\ "x" \in DOMAIN prev[Root].locals
    /\ "h" \in DOMAIN prev[Root].locals
    /\ "g" \in DOMAIN prev[Root].locals
    /\ LastResult = OkSome(DataNumber(1))
    /\ scopes[prev[Root].locals["h"].scope].locals["x"] = DataNumber(5)

\* The characters of `text`, the characters of every span from `//` through
\* the next newline left out, the newline that ends a span kept.
RECURSIVE StripComments(_, _, _)
StripComments(text, i, in_comment) ==
    IF i > Len(text) THEN <<>>
    ELSE IF in_comment
    THEN IF text[i] = "\n" THEN <<"\n">> \o StripComments(text, i + 1, FALSE)
         ELSE StripComments(text, i + 1, TRUE)
    ELSE IF text[i] = "/" /\ i < Len(text) /\ text[i + 1] = "/"
    THEN StripComments(text, i + 2, TRUE)
    ELSE <<text[i]>> \o StripComments(text, i + 1, FALSE)

\* The tokens of a text over CommentChars that holds no comment, read one
\* character at a time: a digit or letter extends the token before it when
\* it is adjacent to it and of a kind that may hold it.
RECURSIVE PlainTokens(_, _, _)
PlainTokens(text, i, toks) ==
    IF i > Len(text) THEN toks
    ELSE LET c == text[i]
             adjacent == i > 1 /\ text[i - 1] \in {"1", "c"} /\ toks # <<>>
             last == toks[Len(toks)]
             extended == [toks EXCEPT ![Len(toks)].value = Append(@, c)]
         IN CASE c = "\n" -> PlainTokens(text, i + 1, toks)
              [] c = "/" -> PlainTokens(text, i + 1, Append(toks, TokenOperator(<<"/">>)))
              [] c = "1" ->
                   IF adjacent /\ last.type \in {"Number", "Identifier"}
                   THEN PlainTokens(text, i + 1, extended)
                   ELSE PlainTokens(text, i + 1, Append(toks, TokenNumber(<<"1">>)))
              [] c = "c" ->
                   IF adjacent /\ last.type = "Identifier"
                   THEN PlainTokens(text, i + 1, extended)
                   ELSE PlainTokens(text, i + 1, Append(toks, TokenIdentifier(<<"c">>)))

\* C13: tokenize returns, without error, the tokens of the text with every
\* span from `//` through the next newline removed and acting as a separator:
\* `1//c\n1` gives Number 1, Number 1, a comment that runs to the end of the
\* text ends tokenization, and a `/` not followed by `/` is the operator `/`.
C13_CommentsAreSeparators ==
    (pc = "tokenized" /\ \A i \in 1..Len(input) : input[i] \in CommentChars)
    => /\ lexed = LexOk(PlainTokens(StripComments(input, 1, FALSE), 1, <<>>))
       /\ input = <<"1", "/", "/", "c", "\n", "1">>
              => lexed.tokens = <<TokenNumber(<<"1">>), TokenNumber(<<"1">>)>>
       /\ input = <<"1", "/", "/", "c">> => lexed.tokens = <<TokenNumber(<<"1">>)>>
       /\ input = <<"1", "/", "1">>
              => lexed.tokens = <<TokenNumber(<<"1">>), TokenOperator(<<"/">>), TokenNumber(<<"1">>)>>

\* `1//c\n1` has been tokenized to the two Numbers on the sides of the comment.
C13_Witness ==
    /\ pc = "tokenized"
    /\ input = <<"1", "/", "/", "c", "\n", "1">>
    /\ lexed = LexOk(<<TokenNumber(<<"1">>), TokenNumber(<<"1">>)>>)

\* The token the spec gives a word: Keyword for `let` and `fn`, Boolean for
\* `true` and `false`, Identifier for every other word.
WordToken(word) ==
    IF word \in {<<"l", "e", "t">>, <<"f", "n">>} THEN TokenKeyword(word)
    ELSE IF word = <<"t", "r", "u", "e">> THEN TokenBoolean(TRUE)
    ELSE IF word = <<"f", "a", "l", "s", "e">> THEN TokenBoolean(FALSE)
    ELSE TokenIdentifier(word)

\* C14: a text that is one word (a letter or `_`, then letters, digits and
\* `_`) is tokenized to exactly one token: Keyword for `let` and `fn`, Boolean
\* for `true` and `false`, Identifier for every other word.
C14_WordsAreClassified ==
    (/\ pc = "tokenized"
     /\ input # <<>>
     /\ input[1] \in Letters
     /\ \A i \in 1..Len(input) : input[i] \in Letters \cup Digits)
    => lexed = LexOk(<<WordToken(input)>>)

\* The token the spec gives a character of its single-character vocabulary.
SymbolToken(c) ==
    IF c \in {"+", "-", "*", "/", "(", ")", "&"} THEN TokenOperator(<<c>>)
    ELSE IF c = "=" THEN TokenAssignment
    ELSE TokenSpecialCharacter(c)

\* C15: a text of one character is tokenized to an Operator when the
\* character is one of `+ - * / ( ) &`, to Assignment when it is `=`, to a
\* SpecialCharacter when it is one of `{ } ,`, and fails with a Lexer error
\* only when the character is outside the vocabulary.
C15_SingleCharacterTokens ==
    (pc = "tokenized" /\ Len(input) = 1 /\ input[1] \in SymbolChars \ {" "})
    => IF input[1] = "#"
       THEN ~lexed.ok
       ELSE lexed = LexOk(<<SymbolToken(input[1])>>)

\* The expression an atom token stands for.
AtomOf(token) ==
    IF token.type = "Identifier" THEN Identifier(token.value[1]) ELSE Number(1)

\* 1 for `+` and `-`, 2 for `*` and `/`.
Precedence(token) == IF token.value[1] \in {"+", "-"} THEN 1 ELSE 2

\* The tree of a chain: it is split at the rightmost of its operators of
\* lowest precedence, both sides being chains.
RECURSIVE ChainTree(_)
ChainTree(chain) ==
    IF Len(chain) = 1 THEN AtomOf(chain[1])
    ELSE LET ops == {i \in 1..Len(chain) : i % 2 = 0}
             lowest == IF \E i \in ops : Precedence(chain[i]) = 1 THEN 1 ELSE 2
             k == CHOOSE i \in ops :
                      /\ Precedence(chain[i]) = lowest
                      /\ \A j \in ops : Precedence(chain[j]) = lowest => j <= i
         IN BinaryExpression(chain[k].value[1],
                             ChainTree(SubSeq(chain, 1, k - 1)),
                             ChainTree(SubSeq(chain, k + 1, Len(chain))))

AfterLets == SubSeq(stream, Len(LetPrefix) + 1, Len(stream))

\* C20: a chain of atoms joined by infix operators parses to the tree in
\* which `*` and `/` bind tighter than `+` and `-` and equal precedences
\* associate to the left: a - b - c is (a - b) - c, a + b * c is a + (b * c),
\* a * b + 1 is (a * b) + 1, and after let a = 2, let b = 3 it is Number(7).
C20_PrecedenceAndAssociativity ==
    pc \in {"parsed", "failed", "evaluated"} =>
        /\ stream \in Chains => parsed = ParseOk(<<>>, Program(<<ChainTree(stream)>>))
        /\ (/\ Len(stream) > Len(LetPrefix)
            /\ SubSeq(stream, 1, Len(LetPrefix)) = LetPrefix
            /\ AfterLets \in Chains)
           => /\ parsed.ok
              /\ Len(parsed.node.kids) = 4
              /\ parsed.node.kids[4] = ChainTree(AfterLets)
        /\ stream = <<Id("a"), Op("-"), Id("b"), Op("-"), Id("c")>>
           => parsed.node.kids[1] =
                  BinaryExpression("-", BinaryExpression("-", Identifier("a"), Identifier("b")),
                                   Identifier("c"))
        /\ stream = <<Id("a"), Op("+"), Id("b"), Op("*"), Id("c")>>
           => parsed.node.kids[1] =
                  BinaryExpression("+", Identifier("a"),
                                   BinaryExpression("*", Identifier("b"), Identifier("c")))
        /\ (pc = "evaluated" /\ stream = LetPrefix \o <<Id("a"), Op("*"), Id("b"), Op("+"), Num("1")>>)
           => outcome = OkSome(DataNumber(7))

\* let a = 2  let b = 3  let c = 4  a * b + 1 was parsed to (a * b) + 1 and
\* evaluated to 7.
C20_Witness ==
    /\ pc = "evaluated"
    /\ stream = LetPrefix \o <<Id("a"), Op("*"), Id("b"), Op("+"), Num("1")>>
    /\ parsed.node.kids[4] =
           BinaryExpression("+", BinaryExpression("*", Identifier("a"), Identifier("b")), Number(1))
    /\ outcome = OkSome(DataNumber(7))

\* The expression a call or reference of Postfixes stands for.
PostfixOf(q) ==
    IF q = <<Id("x"), Op("&")>> THEN Reference("x")
    ELSE Call("f", [i \in 1..((Len(q) - 2) \div 2) |-> Identifier(q[2 * i + 1].value[1])])

\* C19: an atom and a call or reference joined by an infix operator parse to
\* the BinaryExpression of the two, whichever side the call or reference is
\* on: `a + f(b)` to {+, a, Call f [b]}, `a + x&` to {+, a, Reference x},
\* `f(b) + a` to {+, Call f [b], a}.
C19_PostfixOnTheRight ==
    pc \in {"parsed", "failed", "evaluated"} =>
        \A a \in AtomTokens, o \in InfixTokens, q \in Postfixes :
            /\ stream = <<a, o>> \o q
               => parsed = ParseOk(<<>>, Program(<<BinaryExpression(o.value[1], AtomOf(a),
                                                                   PostfixOf(q))>>))
            /\ stream = q \o <<o, a>>
               => parsed = ParseOk(<<>>, Program(<<BinaryExpression(o.value[1], PostfixOf(q),
                                                                   AtomOf(a))>>))

\* The node a chunk of BlockChunks stands for.
ChunkNode(chunk) ==
    CASE chunk = <<Let, Id("m"), TokenAssignment, Id("n")>> -> Variable("m", Identifier("n"))
      [] chunk = <<Id("m"), Op("+"), Num("1")>> ->
             BinaryExpression("+", Identifier("m"), Number(1))
      [] chunk = <<Fn, Id("g"), Op("("), Op(")"), TokenAssignment, Num("1")>> ->
             Function("g", <<>>, Number(1))
      [] chunk = <<Id("m")>> -> Identifier("m")
      [] chunk = <<Num("1")>> -> Number(1)

\* C11: `fn f(n) = { n1 ... nk }  f(41)` parses to a function whose body is
\* the Block of exactly n1..nk in source order, `let` and `fn` statements
\* included, and with the block { let m = n  m + 1 } it evaluates to 42.
C11_BlockKeepsItsStatements ==
    pc \in {"parsed", "failed", "evaluated"} =>
        \A chunks \in Strings(BlockChunks, MaxBlockNodes) :
            stream = BlockStream(chunks)
            => /\ parsed.ok
               /\ parsed.node.kids[1] =
                      Function("f", <<"n">>, Block([i \in 1..Len(chunks) |-> ChunkNode(chunks[i])]))
               /\ (/\ pc = "evaluated"
                   /\ chunks = <<(<<Let, Id("m"), TokenAssignment, Id("n")>>),
                                 (<<Id("m"), Op("+"), Num("1")>>)>>)
                  => outcome = OkSome(DataNumber(42))

\* The scope of the block the last node created.
BlockScope == Len(scopes)

\* C21: the left operand of a BinaryExpression is evaluated, with its moves
\* applied to the scopes, before the right operand: when the left operand
\* 1 / 0 fails, b is not read and the result is the error of the left
\* operand; when the left operand b is read and the right operand 1 / 0
\* fails, b has been moved into the block; when the left operand b cannot be
\* resolved, the result is that error and not the one of 1 / 0; and in b + b
\* the right operand finds the b the left operand moved.
C21_LeftOperandFirst ==
    Ran > 0 =>
        /\ program[Ran] = "BlockFailLeft"
           => /\ LastResult = Runtime("Division by zero", "", 0, 0)
              /\ scopes[Root] = prev[Root]
              /\ scopes[BlockScope].locals = EmptyLocals
        /\ (program[Ran] = "BlockFailRight" /\ "b" \in DOMAIN prev[Root].locals)
           => /\ LastResult = Runtime("Division by zero", "", 0, 0)
              /\ "b" \notin DOMAIN scopes[Root].locals
              /\ scopes[BlockScope].locals = ("b" :> prev[Root].locals["b"])
        /\ (program[Ran] = "BlockFailRight" /\ "b" \notin DOMAIN prev[Root].locals)
           => /\ LastResult.kind = "err"
              /\ LastResult.id = "b"
              /\ scopes[Root] = prev[Root]
        /\ (program[Ran] = "BlockBoth" /\ "b" \in DOMAIN prev[Root].locals)
           => /\ LastResult = Runtime("Unexpected operator for operands", "+", 0, 0)
              /\ "b" \notin DOMAIN scopes[Root].locals
              /\ scopes[BlockScope].history = <<"b">>

\* { b + 1 / 0 } was evaluated with b bound in the root scope: the block
\* failed on the right operand after the left one had moved b.
C21_Witness ==
    /\ Ran > 0
    /\ program[Ran] = "BlockFailRight"
    /\ "b" \in DOMAIN prev[Root].locals
    /\ LastResult = Runtime("Division by zero", "", 0, 0)
    /\ "b" \in DOMAIN scopes[BlockScope].locals
    /\ "b" \notin DOMAIN scopes[Root].locals

\* The last operation on the chain.
LastOp == program[Len(program)]

\* C22: a resolve(name) from a scope none of whose chain (the scope and its
\* ancestors) binds name fails and leaves every scope as it was: locals,
\* history and references.
C22_FailedResolveChangesNothing ==
    (/\ pc = "chain"
     /\ program # <<>>
     /\ LastOp[1] = "resolve"
     /\ \A t \in 1..LastOp[2] : LastOp[3] \notin DOMAIN prev[t].locals)
    => /\ results[Len(results)].kind = "err"
       /\ results[Len(results)].id = LastOp[3]
       /\ scopes = prev

\* A resolve of f from the root scope failed, after f had been declared there
\* and moved out of it by a resolve from a child scope.
C22_Witness ==
    /\ pc = "chain"
    /\ Len(program) = 3
    /\ program[1] = <<"declare", 1, "f">>
    /\ program[3] = <<"resolve", 1, "f">>
    /\ "f" \notin DOMAIN prev[1].locals
    /\ results[3].kind = "err"
    /\ scopes = prev

\* C23: the affine value f, declared once, is bound under its name in at
\* most one scope of the chain, whatever declare and resolve operations
\* have taken place.
C23_AffineValueHasOneOwner ==
    pc = "chain" => Cardinality({s \in ChainScopes : "f" \in DOMAIN scopes[s].locals}) <= 1

====
